---- MODULE Spec2Model ----
(***************************************************************************)
(* A model of ytkb (youtrack_writer): the download, diff and push commands *)
(* over a remote article catalog and a local directory of markdown files.  *)
(*                                                                         *)
(* Strings that the code inspects character by character (bodies, titles,  *)
(* the confirmation response, file names) are sequences of one-character   *)
(* strings.  Identifiers are opaque strings.  A path is a sequence of name *)
(* components, each a sequence of characters; the suffix ".md" is one      *)
(* pseudo-character.  The empty path <<>> stands for "." as a directory    *)
(* and for "" as a node's Path.                                            *)
(***************************************************************************)
EXTENDS Integers, Sequences, FiniteSets, TLC

(***************************************************************************)
(* Bounds of the model.                                                    *)
(***************************************************************************)
MaxArticles == 3
MaxFiles == 2

VARIABLES
    cmd,            \* the command line: "download", "diff", "push", "pushfile"
    articles,       \* the remote catalog, as ListArticles returns it
    files,          \* the local markdown files, in FindMarkdownFiles order
    pc,             \* position in the running command
    ret,            \* what RunE returned: "running", "nil" or "error"
    calls,          \* the remote calls issued so far
    out,            \* lines written to standard output
    errs,           \* lines written to standard error
    disk,           \* the paths of the files that exist locally
    pagesToPush,    \* push: the planned updates
    newPages,       \* push: the skipped new files
    idx,            \* push: position of the update loop in pagesToPush
    response,       \* push: the line read from standard input
    articleStatus,  \* diff: status per remote identifier
    rootNodes,      \* diff: the forest
    todo,           \* download: the articles still to be written, in order
    writes          \* download: the files written, in order

vars == <<cmd, articles, files, pc, ret, calls, out, errs, disk, pagesToPush,
          newPages, idx, response, articleStatus, rootNodes, todo, writes>>

(***************************************************************************)
(* Strings                                                                 *)
(***************************************************************************)
NoParent == "nil"          \* a nil *string

IsSpace(c) == c \in {" ", "\t", "\n", "\r"}

RECURSIVE TrimLeft(_)
TrimLeft(s) ==
    IF s # <<>> /\ IsSpace(Head(s)) THEN TrimLeft(Tail(s)) ELSE s

RECURSIVE TrimRight(_)
TrimRight(s) ==
    IF s # <<>> /\ IsSpace(s[Len(s)])
    THEN TrimRight(SubSeq(s, 1, Len(s) - 1))
    ELSE s

\* strings.TrimSpace
TrimSpace(s) == TrimRight(TrimLeft(s))

LowerOf(c) ==
    CASE c = "Y" -> "y"
      [] c = "E" -> "e"
      [] c = "S" -> "s"
      [] c = "N" -> "n"
      [] c = "O" -> "o"
      [] OTHER -> c

\* strings.ToLower
ToLower(s) == [i \in DOMAIN s |-> LowerOf(s[i])]

RECURSIVE Perms(_)
\* every order in which a Go map of key set S can be ranged over
Perms(S) ==
    IF S = {} THEN {<<>>}
    ELSE UNION {{<<x>> \o p : p \in Perms(S \ {x})} : x \in S}

SeqsUpTo(S, n) == UNION {[1..k -> S] : k \in 0..n}

Ev(k, s, x) == [k |-> k, s |-> s, x |-> x]

(***************************************************************************)
(* Inputs: the remote catalog and the local files                          *)
(***************************************************************************)
IDOf(i) == ToString(i)

\* client.go:140: the canonical link is derived from the identifier
URLOf(id) == <<"/articles/", id>>

Article(id, title, content, parent, order) ==
    [ID |-> id, Title |-> title, Content |-> content, ParentID |-> parent,
     Order |-> order, URL |-> URLOf(id)]

\* titles of the catalogs whose hierarchy varies; two of them are equal and
\* hold a character that SanitizeFilename replaces
TreeTitle(i) ==
    CASE i = 1 -> <<"B">>
      [] i \in {2, 3} -> <<"A", "/">>
      [] OTHER -> <<"C">>

\* catalogs of n articles with every combination of parent reference and
\* order; a parent reference may name the article itself, a later article
\* or an identifier that is not in the list
TreeCatalogs ==
    UNION {
      { [i \in 1..n |-> Article(IDOf(i), TreeTitle(i), <<"x">>, f[i][1], f[i][2])]
        : f \in [1..n -> ({NoParent} \cup {IDOf(j) : j \in 1..MaxArticles}) \X {0, 1}] }
      : n \in 0..MaxArticles }

\* the catalog that a download into A.md, A/B.md, C.md came from; ListArticles
\* leaves every Order at 0
FlatArticle(i) ==
    CASE i = 1 -> Article(IDOf(1), <<"A">>, <<"x">>, NoParent, 0)
      [] i = 2 -> Article(IDOf(2), <<"B">>, <<"z", " ">>, IDOf(1), 0)
      [] OTHER -> Article(IDOf(i), <<"C">>, <<"x">>, NoParent, 0)

FlatCatalogs == {[i \in 1..n |-> FlatArticle(i)] : n \in 0..MaxArticles}

MD == ".md"

\* the candidate local files, in the lexical order of filepath.Walk
WalkPaths ==
    << << <<"A">>, <<"B", MD>> >>,
       << <<"A">>, <<"n", MD>> >>,
       << <<"A", MD>> >> >>

Bodies == { <<"x">>, <<" ", "x", "\n">>, <<"z">> }

LocalIDs == {"", IDOf(1), IDOf(2)}

\* the title a file carries: the stem of its name
Stem(path) == SubSeq(path[Len(path)], 1, Len(path[Len(path)]) - 1)

\* what reading and decoding the file at path p can yield
FileChoices(p) ==
    {[path |-> p, st |-> "malformed", id |-> "", title |-> <<>>, content |-> <<>>]}
    \cup {[path |-> p, st |-> "ok", id |-> i, title |-> Stem(p), content |-> b]
            : i \in LocalIDs, b \in Bodies}

IncSeqs ==
    {s \in SeqsUpTo(1..Len(WalkPaths), MaxFiles) :
        \A i \in 1..(Len(s) - 1) : s[i] < s[i + 1]}

LocalSnapshots ==
    UNION { {f \in [DOMAIN s -> UNION {FileChoices(WalkPaths[k]) : k \in DOMAIN WalkPaths}] :
                \A k \in DOMAIN s : f[k] \in FileChoices(WalkPaths[s[k]])}
            : s \in IncSeqs }

PathsOf(fs) == {fs[i].path : i \in DOMAIN fs}

\* the file named on the command line of a single-file push
SingleFiles ==
    UNION {FileChoices(WalkPaths[k]) \cup
           {[path |-> WalkPaths[k], st |-> "unreadable", id |-> "",
             title |-> <<>>, content |-> <<>>]} : k \in DOMAIN WalkPaths}

\* what the operator can type at the confirmation prompt; the last two end
\* without a newline (end of input)
StdinInputs ==
    { <<"y", "\n">>, <<"Y", "E", "S", "\n">>, <<" ", "Y", "\r", "\n">>,
      <<"\n">>, <<"n", "\n">>, <<"y", "e", "\n">>, <<"y", "e", "s", "s", "\n">>,
      <<"y", " ", "y", "\n">>, <<"n", "\n", "y", "\n">>,
      <<"y">>, <<>> }

(***************************************************************************)
(* The maps that push and diff build                                       *)
(***************************************************************************)
\* a file that was read and decoded (the loops `continue` past the others)
Decoded(f) == f.st = "ok"

IndexedIDs(fs) == {fs[i].id : i \in {j \in DOMAIN fs : Decoded(fs[j]) /\ fs[j].id # ""}}

\* localByID / localPaths: a later file with the same identifier overwrites
LocalByID(fs) ==
    [id \in IndexedIDs(fs) |->
        fs[CHOOSE i \in DOMAIN fs :
              /\ Decoded(fs[i]) /\ fs[i].id = id
              /\ \A j \in DOMAIN fs : (Decoded(fs[j]) /\ fs[j].id = id) => j <= i]]

\* serverByID
ServerByID(as) ==
    [id \in {as[i].ID : i \in DOMAIN as} |->
        as[CHOOSE i \in DOMAIN as :
              as[i].ID = id /\ \A j \in DOMAIN as : as[j].ID = id => j <= i]]

\* mutant: the comparison without the trimming
Differs_Untrimmed(localMD, serverArticle) == localMD.content # serverArticle.Content

\* the comparison of push.go:112-115 and of the diff
Differs(localMD, serverArticle) ==
    TrimSpace(localMD.content) # TrimSpace(serverArticle.Content)

(***************************************************************************)
(* push                                                                    *)
(***************************************************************************)
\* the identifiers appended to pagesToPush
ModifiedIDs(fs, as) ==
    {id \in DOMAIN LocalByID(fs) \cap DOMAIN ServerByID(as) :
        Differs(LocalByID(fs)[id], ServerByID(as)[id])}

Page(localMD) == [id |-> localMD.id, title |-> localMD.title, filePath |-> localMD.path]

\* pagesToPush, in each order the range over localByID can take
PagesToPush(fs, as) ==
    {[k \in DOMAIN p |-> Page(LocalByID(fs)[p[k]])] : p \in Perms(ModifiedIDs(fs, as))}

IsNew(f, as) == f.id = "" \/ f.id \notin DOMAIN ServerByID(as)

RECURSIVE NewPages(_, _)
\* newPages, in file order
NewPages(fs, as) ==
    IF fs = <<>> THEN <<>>
    ELSE IF Decoded(Head(fs)) /\ IsNew(Head(fs), as)
         THEN <<Head(fs).path>> \o NewPages(Tail(fs), as)
         ELSE NewPages(Tail(fs), as)

\* bufio.Reader.ReadString('\n'): the line up to and including the first
\* newline, or everything and an error at end of input
HasNewline(in) == \E i \in DOMAIN in : in[i] = "\n"

ReadString(in) ==
    IF HasNewline(in)
    THEN [line |-> SubSeq(in, 1, CHOOSE i \in DOMAIN in :
                                    in[i] = "\n" /\ \A j \in 1..(i - 1) : in[j] # "\n"),
          err |-> FALSE]
    ELSE [line |-> in, err |-> TRUE]

\* mutant: any response that starts with a y is taken as a yes
Affirmative_FirstLetter(line) == line # <<>> /\ LowerOf(line[1]) = "y"

\* push.go:176-177
Affirmative(line) ==
    LET r == TrimSpace(ToLower(line)) IN r = <<"y">> \/ r = <<"y", "e", "s">>

\* a remote call and whether the service answered it with success
UpdateCall(id, title, content, ok) ==
    [op |-> "update", id |-> id, title |-> title, content |-> content, ok |-> ok]

ListCall(ok) == [op |-> "list", id |-> "", title |-> <<>>, content |-> <<>>, ok |-> ok]

\* a command that returns: an error reaches main, which prints it
Return(r, what) ==
    /\ ret' = r
    /\ pc' = "done"
    /\ errs' = IF r = "error" THEN Append(errs, Ev("Error", <<>>, <<what>>)) ELSE errs

\* main.go:18-21
ExitStatus == IF ret = "error" THEN 1 ELSE 0

\* mutant: the identifier check is missing
SinglePushCheck_NoIDCheck(f) ==
    IF f.st = "unreadable" THEN "read"
    ELSE IF f.st = "malformed" THEN "parse"
    ELSE "update"

\* push.go:37-52: which return of pushSinglePage the file leads to
SinglePushCheck(f) ==
    IF f.st = "unreadable" THEN "read"
    ELSE IF f.st = "malformed" THEN "parse"
    ELSE IF f.id = "" THEN "cannotpush"
    ELSE "update"

\* pushSinglePage
PushSinglePage ==
    /\ cmd = "pushfile" /\ pc = "start"
    /\ LET f == files[1]
           started == Append(out, Ev("PushingFile", <<>>, f.path))
       IN  IF SinglePushCheck(f) # "update"
           THEN /\ out' = started
                /\ calls' = calls
                /\ Return("error", SinglePushCheck(f))
           ELSE \E ok \in BOOLEAN :
                  /\ calls' = Append(calls, UpdateCall(f.id, f.title, f.content, ok))
                  /\ IF ok
                     THEN /\ out' = Append(started, Ev("Updated", f.title, <<>>))
                          /\ Return("nil", "")
                     ELSE /\ out' = started
                          /\ Return("error", "update")
    /\ UNCHANGED <<cmd, articles, files, disk, pagesToPush, newPages, idx,
                   response, articleStatus, rootNodes, todo, writes>>

\* mutant: the skipped new files are not looked at
NothingToPush_IgnoresNew(pages, new) == pages = <<>>

\* push.go:148
NothingToPush(pages, new) == pages = <<>> /\ new = <<>>

\* pushAllChanges, push.go:64-151: load, plan, and return if there is nothing
PushAllPlan ==
    /\ cmd = "push" /\ pc = "start"
    /\ \E walked \in BOOLEAN, listed \in BOOLEAN :
         IF ~walked
         THEN /\ Return("error", "find")
              /\ UNCHANGED <<calls, out, pagesToPush, newPages>>
         ELSE /\ calls' = Append(calls, ListCall(listed))
              /\ IF ~listed
                 THEN /\ Return("error", "list")
                      /\ UNCHANGED <<out, pagesToPush, newPages>>
                 ELSE /\ pagesToPush' \in PagesToPush(files, articles)
                      /\ newPages' = NewPages(files, articles)
                      /\ IF NothingToPush(pagesToPush', newPages')
                         THEN /\ out' = Append(out, Ev("NoChanges", <<>>, <<>>))
                              /\ Return("nil", "")
                         ELSE /\ pc' = "plan"
                              /\ UNCHANGED <<out, ret, errs>>
    /\ UNCHANGED <<cmd, articles, files, disk, idx, response, articleStatus,
                   rootNodes, todo, writes>>

\* push.go:153-169: list the plan and the skipped files, then prompt
ShowPlan ==
    /\ cmd = "push" /\ pc = "plan"
    /\ out' = out
              \o <<Ev("PlanHeader", <<>>, <<>>)>>
              \o [k \in DOMAIN pagesToPush |->
                    Ev("PlanItem", pagesToPush[k].title, pagesToPush[k].filePath)]
              \o (IF newPages # <<>>
                  THEN <<Ev("SkippedHeader", <<>>, <<Len(newPages)>>)>>
                       \o [k \in DOMAIN newPages |-> Ev("SkippedItem", <<>>, newPages[k])]
                  ELSE <<>>)
              \o <<Ev("Prompt", <<>>, <<>>)>>
    /\ pc' = "prompt"
    /\ UNCHANGED <<cmd, articles, files, ret, calls, errs, disk, pagesToPush,
                   newPages, idx, response, articleStatus, rootNodes, todo, writes>>

\* mutant: a declined push still warns about the pages deleted locally
ReadResponse_WarnsOnCancel ==
    /\ cmd = "push" /\ pc = "prompt"
    /\ \E in \in StdinInputs :
         LET r == ReadString(in) IN
         /\ response' = r.line
         /\ IF r.err
            THEN /\ Return("error", "response")
                 /\ UNCHANGED out
            ELSE IF ~Affirmative(r.line)
            THEN /\ \E p \in Perms(DOMAIN ServerByID(articles) \ DOMAIN LocalByID(files)) :
                      out' = Append(out, Ev("Cancelled", <<>>, <<>>))
                             \o [k \in DOMAIN p |->
                                   Ev("DeletedWarn", ServerByID(articles)[p[k]].Title,
                                                     ServerByID(articles)[p[k]].URL)]
                 /\ Return("nil", "")
            ELSE /\ out' = Append(out, Ev("Pushing", <<>>, <<>>))
                 /\ pc' = "pushing"
                 /\ UNCHANGED <<ret, errs>>
    /\ UNCHANGED <<cmd, articles, files, calls, disk, pagesToPush, newPages,
                   idx, articleStatus, rootNodes, todo, writes>>

\* push.go:170-183: read the response; anything else than y/yes cancels
ReadResponse ==
    /\ cmd = "push" /\ pc = "prompt"
    /\ \E in \in StdinInputs :
         LET r == ReadString(in) IN
         /\ response' = r.line
         /\ IF r.err
            THEN /\ Return("error", "response")
                 /\ UNCHANGED out
            ELSE IF ~Affirmative(r.line)
            THEN /\ out' = Append(out, Ev("Cancelled", <<>>, <<>>))
                 /\ Return("nil", "")
            ELSE /\ out' = Append(out, Ev("Pushing", <<>>, <<>>))
                 /\ pc' = "pushing"
                 /\ UNCHANGED <<ret, errs>>
    /\ UNCHANGED <<cmd, articles, files, calls, disk, pagesToPush, newPages,
                   idx, articleStatus, rootNodes, todo, writes>>

\* mutant: a failed update returns the error instead of continuing
UpdateNext_Abort ==
    /\ cmd = "push" /\ pc = "pushing" /\ idx <= Len(pagesToPush)
    /\ LET page == pagesToPush[idx]
           localMD == LocalByID(files)[page.id]
       IN  \E ok \in BOOLEAN :
             /\ calls' = Append(calls, UpdateCall(page.id, localMD.title, localMD.content, ok))
             /\ IF ok
                THEN /\ out' = Append(out, Ev("Updated", page.title, <<>>))
                     /\ UNCHANGED <<errs, pc, ret>>
                ELSE /\ out' = out
                     /\ Return("error", "update")
    /\ idx' = idx + 1
    /\ UNCHANGED <<cmd, articles, files, disk, pagesToPush, newPages,
                   response, articleStatus, rootNodes, todo, writes>>

\* push.go:184-192: one iteration of the update loop
UpdateNext ==
    /\ cmd = "push" /\ pc = "pushing" /\ idx <= Len(pagesToPush)
    /\ LET page == pagesToPush[idx]
           localMD == LocalByID(files)[page.id]
       IN  \E ok \in BOOLEAN :
             /\ calls' = Append(calls, UpdateCall(page.id, localMD.title, localMD.content, ok))
             /\ IF ok
                THEN /\ out' = Append(out, Ev("Updated", page.title, <<>>))
                     /\ errs' = errs
                ELSE /\ errs' = Append(errs, Ev("FailedUpdate", page.title, <<>>))
                     /\ out' = out
    /\ idx' = idx + 1
    /\ UNCHANGED <<cmd, articles, files, pc, ret, disk, pagesToPush, newPages,
                   response, articleStatus, rootNodes, todo, writes>>

\* mutant: every article that was not pushed is taken as deleted
DeletedIDs_NotPushed(fs, as) == DOMAIN ServerByID(as) \ ModifiedIDs(fs, as)

\* push.go:195-196: the remote identifiers that localByID does not hold
DeletedIDs(fs, as) == DOMAIN ServerByID(as) \ DOMAIN LocalByID(fs)

\* mutant: the pages deleted locally are deleted on the remote too
WarnDeleted_DeletesRemote ==
    /\ cmd = "push" /\ pc = "pushing" /\ idx > Len(pagesToPush)
    /\ \E p \in Perms(DeletedIDs(files, articles)) :
         /\ out' = out \o <<Ev("PushComplete", <<>>, <<>>)>>
         /\ calls' = calls \o [k \in DOMAIN p |->
                         [op |-> "delete", id |-> p[k], title |-> <<>>,
                          content |-> <<>>, ok |-> TRUE]]
    /\ Return("nil", "")
    /\ UNCHANGED <<cmd, articles, files, disk, pagesToPush, newPages, idx,
                   response, articleStatus, rootNodes, todo, writes>>

\* push.go:194-203: warn about the pages deleted locally, and return
WarnDeleted ==
    /\ cmd = "push" /\ pc = "pushing" /\ idx > Len(pagesToPush)
    /\ \E p \in Perms(DeletedIDs(files, articles)) :
         out' = out
                \o [k \in DOMAIN p |->
                      Ev("DeletedWarn", ServerByID(articles)[p[k]].Title,
                                        ServerByID(articles)[p[k]].URL)]
                \o <<Ev("PushComplete", <<>>, <<>>)>>
    /\ calls' = calls
    /\ Return("nil", "")
    /\ UNCHANGED <<cmd, articles, files, disk, pagesToPush, newPages, idx,
                   response, articleStatus, rootNodes, todo, writes>>

RunPush == PushSinglePage \/ PushAllPlan \/ ShowPlan \/ ReadResponse \/ UpdateNext \/ WarnDeleted

(***************************************************************************)
(* The tree that diff builds                                               *)
(***************************************************************************)
\* part_001:237: the less function of the sorts by order
ByOrder(a, b) == a.Order < b.Order

\* the result of sort.Slice over the elements S: some order in which no
\* element is less than an earlier one (sort.Slice is not stable, and the
\* children come out of a map range in any order)
SortByOrder(S) ==
    {p \in Perms(S) : \A i, j \in DOMAIN p : i < j => ~ByOrder(p[j], p[i])}

\* the byte order of the characters that titles are made of
CharRank(c) ==
    CASE c = "/" -> 47
      [] c = "A" -> 65
      [] c = "B" -> 66
      [] c = "C" -> 67
      [] c = "_" -> 95
      [] c = "n" -> 110
      [] OTHER -> 0

RECURSIVE StrLess(_, _)
\* Go's < on strings
StrLess(a, b) ==
    IF b = <<>> THEN FALSE
    ELSE IF a = <<>> THEN TRUE
    ELSE IF a[1] = b[1] THEN StrLess(Tail(a), Tail(b))
    ELSE CharRank(a[1]) < CharRank(b[1])

ByTitle(m, n) == StrLess(m.Title, n.Title)

\* part_001:198-200: sort.Slice again, by title
SortByTitle(S) ==
    {p \in Perms(S) : \A i, j \in DOMAIN p : i < j => ~ByTitle(p[j], p[i])}

\* filepath.Dir of a relative file path; <<>> is "."
Dir(path) == SubSeq(path, 1, Len(path) - 1)

NoPath == <<>>

\* part_001:152 and part_002:46
IsRoot(a) == a.ParentID = NoParent \/ a.ParentID = ""

\* mutant: the traversal starts from the children of the roots as well
RootArticles_AndTheirChildren(as) ==
    {as[i] : i \in {j \in DOMAIN as :
        \/ IsRoot(as[j])
        \/ \E r \in DOMAIN as : IsRoot(as[r]) /\ as[j].ParentID = as[r].ID}}

\* part_001:149-155 and part_002:44-49: the articles the traversals start from
RootArticles(as) == {as[i] : i \in {j \in DOMAIN as : IsRoot(as[j])}}

\* part_001:228-233 and part_002:95-100: the articles of the map whose parent
\* reference is the identifier
ChildrenOf(id, as) ==
    {c \in {ServerByID(as)[k] : k \in DOMAIN ServerByID(as)} :
        c.ParentID # NoParent /\ c.ParentID = id}

\* mutant: only the local side of the comparison is trimmed
StatusOf_TrimsLocalOnly(article, fs) ==
    IF article.ID \in DOMAIN LocalByID(fs)
    THEN IF TrimSpace(LocalByID(fs)[article.ID].content) # article.Content
         THEN "StatusModified" ELSE "StatusUnchanged"
    ELSE "StatusDeleted"

\* part_001:121-139: the status of a remote article
StatusOf(article, fs) ==
    IF article.ID \in DOMAIN LocalByID(fs)
    THEN IF Differs(LocalByID(fs)[article.ID], article)
         THEN "StatusModified" ELSE "StatusUnchanged"
    ELSE "StatusDeleted"

ArticleStatus(fs, as) ==
    [id \in DOMAIN ServerByID(as) |-> StatusOf(ServerByID(as)[id], fs)]

\* articlePaths
ArticlePaths(fs) == [id \in DOMAIN LocalByID(fs) |-> LocalByID(fs)[id].path]

RECURSIVE BuildTreeNode(_, _, _, _)
RECURSIVE BuildChildNodes(_, _, _, _)
\* buildTreeNode: the nodes it can return for the article
BuildTreeNode(article, as, status, paths) ==
    UNION { { [ID |-> article.ID, Title |-> article.Title,
               Status |-> status[article.ID], Children |-> cs,
               Path |-> IF article.ID \in DOMAIN paths THEN paths[article.ID] ELSE NoPath]
              : cs \in BuildChildNodes(children, as, status, paths) }
            : children \in SortByOrder(ChildrenOf(article.ID, as)) }

\* part_001:241-244: the child nodes, in the order of the sorted children
BuildChildNodes(children, as, status, paths) ==
    IF children = <<>> THEN {<<>>}
    ELSE { <<n>> \o rest :
             n \in BuildTreeNode(Head(children), as, status, paths),
             rest \in BuildChildNodes(Tail(children), as, status, paths) }

\* part_001:149-167: the forests that the roots, sorted by order, give
BuildForest(as, status, paths) ==
    UNION { BuildChildNodes(roots, as, status, paths)
            : roots \in SortByOrder(RootArticles(as)) }

RECURSIVE FindNodeByPath(_, _, _)
\* findNodeByPath from the k-th node on: the position of the node found, as
\* the indices that lead to it, or <<>> for nil
FindNodeByPath(nodes, targetPath, k) ==
    IF k > Len(nodes) THEN <<>>
    ELSE IF nodes[k].Path # NoPath /\ Dir(nodes[k].Path) = targetPath THEN <<k>>
    ELSE LET found == FindNodeByPath(nodes[k].Children, targetPath, 1)
         IN  IF found # <<>> THEN <<k>> \o found
             ELSE FindNodeByPath(nodes, targetPath, k + 1)

RECURSIVE AppendChild(_, _, _)
\* parentNode.Children = append(parentNode.Children, node), by position
AppendChild(nodes, pos, node) ==
    [nodes EXCEPT ![pos[1]] =
        IF Len(pos) = 1
        THEN [@ EXCEPT !.Children = Append(@, node)]
        ELSE [@ EXCEPT !.Children = AppendChild(@, Tail(pos), node)]]

\* part_001:173-194: one identifier-less file takes its place in the forest
InsertNewLocal(roots, f) ==
    LET node == [ID |-> "", Title |-> f.title, Status |-> "StatusNewLocal",
                 Children |-> <<>>, Path |-> f.path]
    IN  IF Dir(f.path) = <<>> THEN Append(roots, node)
        ELSE LET parentNode == FindNodeByPath(roots, Dir(f.path), 1)
             IN  IF parentNode # <<>> THEN AppendChild(roots, parentNode, node)
                 ELSE Append(roots, node)

RECURSIVE InsertAll(_, _)
InsertAll(roots, fs) ==
    IF fs = <<>> THEN roots ELSE InsertAll(InsertNewLocal(roots, Head(fs)), Tail(fs))

\* localByPath: the decoded files without an identifier
LocalByPath(fs) == {fs[i] : i \in {j \in DOMAIN fs : Decoded(fs[j]) /\ fs[j].id = ""}}

SeqToSet(q) == {q[i] : i \in DOMAIN q}

\* part_001:278-289
Icon(status) ==
    CASE status = "StatusUnchanged" -> ""
      [] status = "StatusModified" -> "modified"
      [] status = "StatusNewLocal" -> "new"
      [] status = "StatusDeleted" -> "deleted"
      [] OTHER -> " "

RECURSIVE DisplayTree(_, _, _, _)
\* displayTree from the i-th node on: the lines printed, each the prefix, the
\* connector and the icon (in x) and the title (in s)
DisplayTree(nodes, prefix, isLast, i) ==
    IF i > Len(nodes) THEN <<>>
    ELSE LET node == nodes[i]
             isLastChild == i = Len(nodes)
             currentPrefix == Append(prefix, IF ~isLast THEN "|   " ELSE "    ")
             connector == IF isLastChild THEN "+-- " ELSE "|-- "
         IN  <<Ev("TreeLine", node.Title, prefix \o <<connector, Icon(node.Status)>>)>>
             \o (IF Len(node.Children) > 0
                 THEN DisplayTree(node.Children, currentPrefix, isLastChild, 1)
                 ELSE <<>>)
             \o DisplayTree(nodes, prefix, isLast, i + 1)

(***************************************************************************)
(* diff                                                                    *)
(***************************************************************************)
\* runDiff, part_001:66-139: load both sides and compute the statuses
DiffLoad ==
    /\ cmd = "diff" /\ pc = "start"
    /\ \E walked \in BOOLEAN, listed \in BOOLEAN :
         IF ~walked
         THEN /\ Return("error", "find")
              /\ UNCHANGED <<calls, articleStatus>>
         ELSE /\ calls' = Append(calls, ListCall(listed))
              /\ IF ~listed
                 THEN /\ Return("error", "list")
                      /\ UNCHANGED articleStatus
                 ELSE /\ articleStatus' = ArticleStatus(files, articles)
                      /\ pc' = "tree"
                      /\ UNCHANGED <<ret, errs>>
    /\ out' = Append(out, Ev("Comparing", <<>>, <<>>))
    /\ UNCHANGED <<cmd, articles, files, disk, pagesToPush, newPages, idx,
                   response, rootNodes, todo, writes>>

\* part_001:143-167: the forest of the remote articles
DiffBuildTree ==
    /\ cmd = "diff" /\ pc = "tree"
    /\ rootNodes' \in BuildForest(articles, articleStatus, ArticlePaths(files))
    /\ pc' = "insert"
    /\ UNCHANGED <<cmd, articles, files, ret, calls, out, errs, disk, pagesToPush,
                   newPages, idx, response, articleStatus, todo, writes>>

\* part_001:169-195: the identifier-less files, in the order of the map range
DiffInsertNew ==
    /\ cmd = "diff" /\ pc = "insert"
    /\ \E p \in Perms(LocalByPath(files)) : rootNodes' = InsertAll(rootNodes, p)
    /\ pc' = "sort"
    /\ UNCHANGED <<cmd, articles, files, ret, calls, out, errs, disk, pagesToPush,
                   newPages, idx, response, articleStatus, todo, writes>>

\* part_001:197-206: sort the roots by title, print the tree, return
DiffDisplay ==
    /\ cmd = "diff" /\ pc = "sort"
    /\ rootNodes' \in SortByTitle(SeqToSet(rootNodes))
    /\ out' = out \o <<Ev("TreeHeader", <<>>, <<>>)>> \o DisplayTree(rootNodes', <<>>, TRUE, 1)
    /\ calls' = calls
    /\ Return("nil", "")
    /\ UNCHANGED <<cmd, articles, files, disk, pagesToPush, newPages, idx,
                   response, articleStatus, todo, writes>>

RunDiff == DiffLoad \/ DiffBuildTree \/ DiffInsertNew \/ DiffDisplay

(***************************************************************************)
(* download                                                                *)
(***************************************************************************)
InvalidChars == {"/", "\\", "<", ">", ":", "\"", "|", "?", "*"}

\* filesystem.SanitizeFilename
SanitizeFilename(name) ==
    [i \in DOMAIN name |-> IF name[i] \in InvalidChars THEN "_" ELSE name[i]]

RECURSIVE DownloadArticleRecursive(_, _, _)
RECURSIVE DownloadChildren(_, _, _)
\* mutant: the children are written next to their parent
DownloadArticleRecursive_Flat(article, basePath, as) ==
    LET sanitizedTitle == SanitizeFilename(article.Title)
        filePath == Append(basePath, Append(sanitizedTitle, MD))
    IN  UNION { { <<[path |-> filePath, article |-> article]>> \o rest
                  : rest \in DownloadChildren(children, basePath, as) }
                : children \in SortByOrder(ChildrenOf(article.ID, as)) }

\* downloadArticleRecursive: the sequences of files it can write for the
\* article and its descendants, each file with the article it holds
DownloadArticleRecursive(article, basePath, as) ==
    LET sanitizedTitle == SanitizeFilename(article.Title)
        filePath == Append(basePath, Append(sanitizedTitle, MD))
        childDir == Append(basePath, sanitizedTitle)
    IN  UNION { { <<[path |-> filePath, article |-> article]>> \o rest
                  : rest \in DownloadChildren(children, childDir, as) }
                : children \in SortByOrder(ChildrenOf(article.ID, as)) }

\* part_002:60-64 and 112-116: one article after the other
DownloadChildren(children, basePath, as) ==
    IF children = <<>> THEN {<<>>}
    ELSE { first \o rest :
             first \in DownloadArticleRecursive(Head(children), basePath, as),
             rest \in DownloadChildren(Tail(children), basePath, as) }

\* part_002:43-64: the whole traversal, from the roots sorted by order
DownloadAll(as) ==
    UNION { DownloadChildren(roots, <<>>, as)
            : roots \in SortByOrder(RootArticles(as)) }

\* runDownload, part_002:23-56: list the articles and find the roots
DownloadStart ==
    /\ cmd = "download" /\ pc = "start"
    /\ \E listed \in BOOLEAN :
         /\ calls' = Append(calls, ListCall(listed))
         /\ IF ~listed
            THEN /\ Return("error", "list")
                 /\ out' = Append(out, Ev("Downloading", <<>>, <<>>))
                 /\ todo' = todo
            ELSE IF Len(articles) = 0
            THEN /\ Return("nil", "")
                 /\ out' = out \o <<Ev("Downloading", <<>>, <<>>), Ev("NoArticles", <<>>, <<>>)>>
                 /\ todo' = todo
            ELSE /\ todo' \in DownloadAll(articles)
                 /\ out' = out \o <<Ev("Downloading", <<>>, <<>>),
                                    Ev("FoundRoots", <<>>, <<Cardinality(RootArticles(articles))>>)>>
                 /\ pc' = "writing"
                 /\ UNCHANGED <<ret, errs>>
    /\ UNCHANGED <<cmd, articles, files, disk, pagesToPush, newPages, idx,
                   response, articleStatus, rootNodes, writes>>

\* part_002:72-91: write the next article; a failed write ends the command
DownloadWrite ==
    /\ cmd = "download" /\ pc = "writing" /\ todo # <<>>
    /\ out' = Append(out, Ev("DownloadingArticle", Head(todo).article.Title, Head(todo).path))
    /\ \E written \in BOOLEAN :
         IF written
         THEN /\ writes' = Append(writes, Head(todo))
              /\ disk' = disk \cup {Head(todo).path}
              /\ todo' = Tail(todo)
              /\ UNCHANGED <<pc, ret, errs>>
         ELSE /\ Return("error", "write")
              /\ UNCHANGED <<writes, disk, todo>>
    /\ UNCHANGED <<cmd, articles, files, calls, pagesToPush, newPages, idx,
                   response, articleStatus, rootNodes>>

\* part_002:66-67
DownloadFinish ==
    /\ cmd = "download" /\ pc = "writing" /\ todo = <<>>
    /\ out' = Append(out, Ev("Downloaded", <<>>, <<Len(articles)>>))
    /\ Return("nil", "")
    /\ UNCHANGED <<cmd, articles, files, calls, disk, pagesToPush, newPages, idx,
                   response, articleStatus, rootNodes, todo, writes>>

RunDownload == DownloadStart \/ DownloadWrite \/ DownloadFinish

(***************************************************************************)
(* The state after construction: a command line, a remote catalog and a    *)
(* local directory                                                         *)
(***************************************************************************)
Fresh ==
    /\ pc = "start" /\ ret = "running"
    /\ calls = <<>> /\ out = <<>> /\ errs = <<>>
    /\ disk = PathsOf(files)
    /\ pagesToPush = <<>> /\ newPages = <<>> /\ idx = 1 /\ response = <<>>
    /\ articleStatus = <<>> /\ rootNodes = <<>> /\ todo = <<>> /\ writes = <<>>

InitPush ==
    /\ cmd = "push"
    /\ articles \in FlatCatalogs
    /\ files \in LocalSnapshots
    /\ Fresh

InitPushFile ==
    /\ cmd = "pushfile"
    /\ articles = [i \in 1..1 |-> FlatArticle(i)]
    /\ files \in {<<f>> : f \in SingleFiles}
    /\ Fresh

\* diff over the catalogs whose hierarchy varies, and over a downloaded
\* directory edited in every way
InitDiff ==
    /\ cmd = "diff"
    /\ \/ articles \in TreeCatalogs /\ files = <<>>
       \/ articles \in FlatCatalogs /\ files \in LocalSnapshots
    /\ Fresh

\* a note that the directory already holds when a download starts
StrayFile ==
    [path |-> WalkPaths[2], st |-> "ok", id |-> "", title |-> Stem(WalkPaths[2]),
     content |-> <<"x">>]

InitDownload ==
    /\ cmd = "download"
    /\ articles \in TreeCatalogs
    /\ files = <<StrayFile>>
    /\ Fresh

Init == InitPush \/ InitPushFile \/ InitDiff \/ InitDownload

Next == RunPush \/ RunDiff \/ RunDownload

Spec == Init /\ [][Next]_vars

(***************************************************************************)
(* What the claims are stated in: the inputs and the logs, not the maps    *)
(* the commands build                                                      *)
(***************************************************************************)
Printed(k) == \E j \in DOMAIN out : out[j].k = k

UpdateCalls == {j \in DOMAIN calls : calls[j].op = "update"}

\* t is s without its leading and trailing whitespace
IsTrimOf(t, s) ==
    \E i \in 1..(Len(s) + 1), j \in 0..Len(s) :
        /\ t = SubSeq(s, i, j)
        /\ \A k \in 1..(i - 1) : IsSpace(s[k])
        /\ \A k \in (j + 1)..Len(s) : IsSpace(s[k])
        /\ t # <<>> => ~IsSpace(t[1]) /\ ~IsSpace(t[Len(t)])

SameAfterTrim(a, b) == \E i \in 1..(Len(a) + 1), j \in 0..Len(a) :
                          IsTrimOf(SubSeq(a, i, j), a) /\ IsTrimOf(SubSeq(a, i, j), b)

\* file i is the one that stands for its identifier: decodable, with an
\* identifier, and the last such file in the listing
Carries(i, id) ==
    /\ files[i].st = "ok" /\ files[i].id = id /\ id # ""
    /\ \A j \in DOMAIN files : (files[j].st = "ok" /\ files[j].id = id) => j <= i

OnRemote(id) == \E a \in DOMAIN articles : articles[a].ID = id

\* file i is to be pushed
Eligible(i) ==
    /\ Carries(i, files[i].id)
    /\ \E a \in DOMAIN articles :
          articles[a].ID = files[i].id /\ ~SameAfterTrim(files[i].content, articles[a].Content)

\* file i is skipped as new
SkippedNew(i) ==
    files[i].st = "ok" /\ (files[i].id = "" \/ ~OnRemote(files[i].id))

\* C1: whatever the command and its input, the remote is only ever listed
\* and updated (no create call, no delete call), and every local file that
\* was there when the command started is still there.
C1_OnlyUpdatesNoDeletion ==
    /\ \A j \in DOMAIN calls : calls[j].op \in {"list", "update"}
    /\ cmd \in {"diff", "download"} => UpdateCalls = {}
    /\ PathsOf(files) \subseteq disk

C1_Witness ==
    /\ cmd = "push" /\ Printed("PushComplete") /\ Printed("DeletedWarn")
    /\ newPages # <<>> /\ UpdateCalls # {}
    /\ PathsOf(files) # {}

\* C2: in a bulk push that reached the prompt and read the response, the
\* update loop runs exactly for the responses that are y or yes once trimmed
\* and lower-cased; every other response issues no update, and one that was
\* read as a line prints the cancellation and returns success.
C2_YesLines ==
    { <<"y", "\n">>, <<"Y", "E", "S", "\n">>, <<" ", "Y", "\r", "\n">> }

C2_ConfirmationGate ==
    (cmd = "push" /\ Printed("Prompt") /\ pc # "prompt") =>
        IF response \in C2_YesLines
        THEN Printed("Pushing") /\ (pc = "pushing" \/ Printed("PushComplete"))
        ELSE /\ UpdateCalls = {}
             /\ ~Printed("Pushing")
             /\ pc = "done"
             /\ (response # <<>> /\ response[Len(response)] = "\n") =>
                   (ret = "nil" /\ out[Len(out)].k = "Cancelled")

C2_Witness ==
    /\ cmd = "push" /\ pc = "done" /\ pagesToPush # <<>>
    /\ response = <<"\n">> /\ Printed("Cancelled") /\ UpdateCalls = {}

\* C3: a single-file push never prompts, and for a decodable file without
\* an identifier it returns the cannot-push error without any remote call.
C3_SingleWithoutID ==
    cmd = "pushfile" =>
        /\ ~Printed("Prompt")
        /\ (pc = "done" /\ files[1].st = "ok" /\ files[1].id = "") =>
              /\ ret = "error"
              /\ errs = <<Ev("Error", <<>>, <<"cannotpush">>)>>
              /\ calls = <<>>

C3_Witness ==
    cmd = "pushfile" /\ pc = "done" /\ files[1].st = "ok" /\ files[1].id = ""
    /\ ret = "error"

\* C4: in a confirmed bulk push no identifier is ever updated more than it
\* should be, and once the loop is over there is exactly one update call per
\* file that is to be pushed, with that file's identifier, title and body,
\* and no other update call.
C4_UpdatesExactlyTheModified ==
    (cmd = "push" /\ Printed("Pushing")) =>
        /\ \A j \in UpdateCalls :
              \E i \in DOMAIN files :
                  /\ Eligible(i)
                  /\ calls[j].id = files[i].id
                  /\ calls[j].title = files[i].title
                  /\ calls[j].content = files[i].content
        /\ \A j, k \in UpdateCalls : calls[j].id = calls[k].id => j = k
        /\ Printed("PushComplete") =>
              \A i \in DOMAIN files :
                  Eligible(i) => \E j \in UpdateCalls : calls[j].id = files[i].id

C4_Witness ==
    /\ cmd = "push" /\ Printed("PushComplete")
    /\ Cardinality(UpdateCalls) = 1
    /\ \E i \in DOMAIN files : files[i].st = "ok" /\ files[i].id # "" /\ ~OnRemote(files[i].id)

\* C5: in a confirmed bulk push every failed update is reported on the error
\* stream, the loop goes on to the next planned article, and the command
\* returns success however many updates failed.
C5_FailureDoesNotAbort ==
    (cmd = "push" /\ Printed("Pushing")) =>
        /\ Cardinality({j \in UpdateCalls : ~calls[j].ok})
              = Cardinality({j \in DOMAIN errs : errs[j].k = "FailedUpdate"})
        /\ ret # "error"
        /\ pc = "done" =>
              /\ ret = "nil" /\ ExitStatus = 0
              /\ Cardinality(UpdateCalls) = Cardinality({i \in DOMAIN files : Eligible(i)})

C5_Witness ==
    /\ cmd = "push" /\ pc = "done" /\ ret = "nil"
    /\ \E j \in UpdateCalls : ~calls[j].ok /\ (j + 1) \in UpdateCalls

\* C6: a bulk push that listed the remote and has nothing to update and
\* nothing to skip reports no changes and returns success, with no prompt
\* and no update; with something to update or to skip it does not return
\* before the prompt, and no update is issued before the prompt.
C6_PromptOnlyWithPlan ==
    (cmd = "push" /\ \E j \in DOMAIN calls : calls[j].op = "list" /\ calls[j].ok) =>
        IF \A i \in DOMAIN files : ~Eligible(i) /\ ~SkippedNew(i)
        THEN /\ pc = "done" /\ ret = "nil" /\ ExitStatus = 0
             /\ out = <<Ev("NoChanges", <<>>, <<>>)>>
             /\ UpdateCalls = {}
        ELSE /\ ~Printed("NoChanges")
             /\ pc = "done" => Printed("Prompt")
             /\ UpdateCalls # {} => Printed("Prompt")

C6_Witness ==
    /\ cmd = "push" /\ Printed("NoChanges")
    /\ \E i \in DOMAIN files : files[i].st = "ok" /\ OnRemote(files[i].id)

\* C7: once a bulk push has gone through its updates, the deletion warnings
\* are exactly the remote articles whose identifier no decodable local file
\* carries, each with its title and canonical link.
C7_DeletionWarnings ==
    (cmd = "push" /\ Printed("PushComplete")) =>
        /\ \A a \in DOMAIN articles :
              (~\E i \in DOMAIN files : files[i].st = "ok" /\ files[i].id = articles[a].ID)
              <=> (\E j \in DOMAIN out :
                      /\ out[j].k = "DeletedWarn"
                      /\ out[j].s = articles[a].Title
                      /\ out[j].x = URLOf(articles[a].ID))
        /\ Cardinality({j \in DOMAIN out : out[j].k = "DeletedWarn"})
              = Cardinality({a \in DOMAIN articles :
                    ~\E i \in DOMAIN files : files[i].st = "ok" /\ files[i].id = articles[a].ID})

C7_Witness ==
    /\ cmd = "push" /\ Printed("PushComplete")
    /\ Printed("DeletedWarn") /\ UpdateCalls # {}
    /\ \E i \in DOMAIN files : files[i].st = "ok" /\ OnRemote(files[i].id)

(***************************************************************************)
(* The forest and the traversal, read back                                 *)
(***************************************************************************)
RECURSIVE ForestIDs(_)
\* the identifiers of the nodes of a forest, in pre-order
ForestIDs(nodes) ==
    IF nodes = <<>> THEN <<>>
    ELSE <<Head(nodes).ID>> \o ForestIDs(Head(nodes).Children) \o ForestIDs(Tail(nodes))

RECURSIVE ForestEdges(_)
\* the pairs <<parent identifier, child identifier>> of a forest
ForestEdges(nodes) ==
    IF nodes = <<>> THEN {}
    ELSE {<<Head(nodes).ID, Head(nodes).Children[k].ID>> : k \in DOMAIN Head(nodes).Children}
         \cup ForestEdges(Head(nodes).Children) \cup ForestEdges(Tail(nodes))

RECURSIVE SiblingRows(_)
\* the sequences of children of the nodes of a forest
SiblingRows(nodes) ==
    IF nodes = <<>> THEN {}
    ELSE {Head(nodes).Children} \cup SiblingRows(Head(nodes).Children)
         \cup SiblingRows(Tail(nodes))

Occurrences(q, x) == Cardinality({k \in DOMAIN q : q[k] = x})

ParentEdges ==
    {<<articles[p].ID, articles[a].ID>> : p \in DOMAIN articles, a \in DOMAIN articles}
    \cap {<<articles[a].ParentID, articles[a].ID>> : a \in DOMAIN articles}

\* the position of an identifier in the remote list
IndexOf(id) == CHOOSE a \in DOMAIN articles : articles[a].ID = id

\* the whole traversal of a download: what was written and what is left
Traversal == writes \o todo

\* the forest of the remote articles is built and nothing was added to it yet
TreeBuilt == cmd = "diff" /\ pc = "insert"

TraversalPlanned == cmd = "download" /\ pc = "writing"

\* C8: the forest that diff builds, and the traversal of download, hold every
\* remote article exactly once, and in the forest a node is a child of P
\* exactly when its parent reference is P's identifier.
C8_ForestCoversCatalog ==
    /\ TreeBuilt =>
          /\ \A a \in DOMAIN articles : Occurrences(ForestIDs(rootNodes), articles[a].ID) = 1
          /\ ForestEdges(rootNodes) = ParentEdges
    /\ TraversalPlanned =>
          \A a \in DOMAIN articles :
              Cardinality({k \in DOMAIN Traversal : Traversal[k].article.ID = articles[a].ID}) = 1

\* C9: the children of one parent come in non-decreasing order, and those of
\* equal order in the order of the remote list, in the forest of diff and in
\* the traversal of download.
C9_SiblingsStablySorted ==
    /\ TreeBuilt =>
          \A row \in SiblingRows(rootNodes) : \A i, j \in DOMAIN row :
              i < j =>
                 LET a == articles[IndexOf(row[i].ID)]
                     b == articles[IndexOf(row[j].ID)]
                 IN  /\ a.Order <= b.Order
                     /\ a.Order = b.Order => IndexOf(a.ID) < IndexOf(b.ID)
    /\ TraversalPlanned =>
          \A i, j \in DOMAIN Traversal :
              LET a == Traversal[i].article
                  b == Traversal[j].article
              IN  (i < j /\ ~IsRoot(a) /\ a.ParentID = b.ParentID) =>
                     /\ a.Order <= b.Order
                     /\ a.Order = b.Order => IndexOf(a.ID) < IndexOf(b.ID)

\* C10: the status of a remote article is deleted when no decodable local
\* file carries its identifier, and otherwise unchanged or modified as the
\* body of the file that carries it equals the remote content after trimming
\* both or not; the nodes of the forest carry these statuses; and another
\* body in one file changes the status of no article but the one it carries.
C10_ExpectedStatus(a) ==
    IF ~\E i \in DOMAIN files : files[i].st = "ok" /\ files[i].id = articles[a].ID
    THEN "StatusDeleted"
    ELSE IF \E i \in DOMAIN files :
               Carries(i, articles[a].ID) /\ SameAfterTrim(files[i].content, articles[a].Content)
         THEN "StatusUnchanged"
         ELSE "StatusModified"

RECURSIVE NodeStatuses(_)
NodeStatuses(nodes) ==
    IF nodes = <<>> THEN {}
    ELSE {<<Head(nodes).ID, Head(nodes).Status>>} \cup NodeStatuses(Head(nodes).Children)
         \cup NodeStatuses(Tail(nodes))

C10_Statuses ==
    (cmd = "diff" /\ pc # "start" /\ ret # "error") =>
        /\ \A a \in DOMAIN articles : articleStatus[articles[a].ID] = C10_ExpectedStatus(a)
        /\ \A ns \in NodeStatuses(rootNodes) :
              ns[1] # "" => ns[2] = C10_ExpectedStatus(IndexOf(ns[1]))
        /\ \A i \in DOMAIN files : \A b \in Bodies :
              files[i].st = "ok" =>
                 \A a \in DOMAIN articles :
                     articles[a].ID # files[i].id =>
                        ArticleStatus([files EXCEPT ![i].content = b], articles)[articles[a].ID]
                           = articleStatus[articles[a].ID]

C10_Witness ==
    /\ cmd = "diff" /\ pc = "done" /\ ret = "nil"
    /\ \E i \in DOMAIN files : files[i].st = "ok" /\ files[i].id = ""
    /\ \E a \in DOMAIN articles : articleStatus[articles[a].ID] = "StatusDeleted"
    /\ \E ns \in NodeStatuses(rootNodes) : ns[2] = "StatusModified"

(***************************************************************************)
(* The forest once the identifier-less files are in it                     *)
(***************************************************************************)
RECURSIVE ForestPaths(_)
\* the file paths that the nodes of a forest carry
ForestPaths(nodes) ==
    IF nodes = <<>> THEN {}
    ELSE {Head(nodes).Path} \cup ForestPaths(Head(nodes).Children)
         \cup ForestPaths(Tail(nodes))

\* the forest holds the remote articles and the identifier-less files
ForestComplete == cmd = "diff" /\ pc \in {"sort", "done"} /\ ret # "error"

\* C11: in the forest of diff every local file that decodes has a node that
\* carries its path, whether it is attached to a remote article's node by its
\* identifier or inserted as new-local.
C11_EveryLocalFileHasNode ==
    ForestComplete =>
        \A i \in DOMAIN files :
            files[i].st = "ok" => files[i].path \in ForestPaths(rootNodes)

(***************************************************************************)
(* The files of a download, read back against the parent references        *)
(***************************************************************************)
RECURSIVE ReachesRoot(_, _)
\* following the parent references from article a leads to a root within
\* n steps
ReachesRoot(a, n) ==
    \/ IsRoot(a)
    \/ /\ n > 0
       /\ OnRemote(a.ParentID)
       /\ ReachesRoot(articles[IndexOf(a.ParentID)], n - 1)

FromRoot(a) == ReachesRoot(a, Len(articles))

RECURSIVE AncestorDirs(_, _)
\* the sanitized titles of the ancestors of article a, root first
AncestorDirs(a, n) ==
    IF IsRoot(a) \/ n = 0 THEN <<>>
    ELSE LET p == articles[IndexOf(a.ParentID)]
         IN  Append(AncestorDirs(p, n - 1), SanitizeFilename(p.Title))

\* C12: download plans and writes each article that is reachable from a root
\* at the path made of the sanitized titles of its ancestors, root first, and
\* of its own sanitized title with the suffix; the file of a parent comes
\* before the files of its children (hence of all its descendants); what is
\* written is on the disk, and a download that ends well has written every
\* article that is reachable from a root.
C12_DownloadPaths ==
    cmd = "download" =>
        /\ \A k \in DOMAIN Traversal :
              LET a == Traversal[k].article
              IN  /\ FromRoot(a)
                  /\ Traversal[k].path =
                        Append(AncestorDirs(a, Len(articles)),
                               Append(SanitizeFilename(a.Title), MD))
                  /\ ~IsRoot(a) =>
                        \E j \in 1..(k - 1) : Traversal[j].article.ID = a.ParentID
        /\ \A k \in DOMAIN writes : writes[k].path \in disk
        /\ Printed("Downloaded") =>
              \A a \in DOMAIN articles :
                  FromRoot(articles[a]) =>
                     \E k \in DOMAIN writes : writes[k].article = articles[a]

\* a grandchild was written two directories deep, below a directory whose
\* name was sanitized
C12_Witness ==
    /\ cmd = "download" /\ Printed("Downloaded")
    /\ \E k \in DOMAIN writes :
          /\ Len(writes[k].path) = 3
          /\ writes[k].path[2] = <<"A", "_">>
          /\ writes[k].path[3] = <<"A", "_", MD>>
          /\ writes[k].path \in disk

\* the parent reference of article a names no article of the remote list
Dangling(a) == ~IsRoot(a) /\ ~OnRemote(a.ParentID)

\* C13: an article whose parent reference names no listed article is a root
\* of the forest of diff, and download plans its file at the top level.
C13_DanglingParentIsRoot ==
    \A a \in DOMAIN articles :
        Dangling(articles[a]) =>
            /\ TreeBuilt => \E k \in DOMAIN rootNodes : rootNodes[k].ID = articles[a].ID
            /\ TraversalPlanned =>
                  \E k \in DOMAIN Traversal :
                      /\ Traversal[k].article.ID = articles[a].ID
                      /\ Len(Traversal[k].path) = 1

RECURSIVE ReachesID(_, _, _)
\* following the parent references from article a leads to the identifier
\* within n steps
ReachesID(a, id, n) ==
    /\ n > 0 /\ ~IsRoot(a)
    /\ \/ a.ParentID = id
       \/ /\ OnRemote(a.ParentID)
          /\ ReachesID(articles[IndexOf(a.ParentID)], id, n - 1)

\* article a is reachable from itself
OnCycle(a) == ReachesID(a, a.ID, Len(articles))

HasCycle == \E a \in DOMAIN articles : OnCycle(articles[a])

Listed == \E j \in DOMAIN calls : calls[j].op = "list" /\ calls[j].ok

\* C14: when the parent references of the listed articles contain a cycle,
\* diff and download build no forest and no traversal, and end with a
\* structural error.
C14_CycleIsStructuralError ==
    (HasCycle /\ cmd \in {"diff", "download"} /\ Listed) =>
        /\ pc \notin {"insert", "sort", "writing"}
        /\ pc = "done" =>
              /\ ret = "error"
              /\ \E j \in DOMAIN errs : errs[j].x = <<"structural">>

(***************************************************************************)
(* Where the nodes of a forest hang                                        *)
(***************************************************************************)
AtTop == [top |-> TRUE, Path |-> NoPath, Status |-> ""]

RECURSIVE Placements(_, _)
\* every node of a forest with its path, its status and what it hangs under:
\* the top of the forest, or a node with its Path and Status
Placements(nodes, par) ==
    IF nodes = <<>> THEN {}
    ELSE {[par |-> par, Path |-> Head(nodes).Path, Status |-> Head(nodes).Status]}
         \cup Placements(Head(nodes).Children, [top |-> FALSE, Path |-> Head(nodes).Path,
                        Status |-> Head(nodes).Status])
         \cup Placements(Tail(nodes), par)

\* the directory that holds the children of the article stored at path
OwnedDir(path) == Append(Dir(path), Stem(path))

\* n (a node, or what a node hangs under) is the node of a remote article
\* whose file owns directory D
Owns(n, D) ==
    n.Status # "StatusNewLocal" /\ n.Path # NoPath /\ OwnedDir(n.Path) = D

\* C15: in diff every decodable file without an identifier has a new-local
\* node; for a file in the sync root the node is a root; for a file in
\* directory D the node hangs under the node of the remote article whose
\* file owns D when the forest has one, and is a root when it has none; and diff does not fail
\* once both sides are loaded.
C15_NewLocalUnderOwner ==
    /\ (cmd = "diff" /\ Listed) => ret # "error"
    /\ ForestComplete =>
          \A i \in DOMAIN files :
              (files[i].st = "ok" /\ files[i].id = "") =>
                 LET D == Dir(files[i].path)
                     all == Placements(rootNodes, AtTop)
                     owned == \E pl \in all : Owns(pl, D)
                 IN  \E pl \in all :
                        /\ pl.Path = files[i].path
                        /\ pl.Status = "StatusNewLocal"
                        /\ IF D = <<>> \/ ~owned
                           THEN pl.par.top
                           ELSE ~pl.par.top /\ Owns(pl.par, D)

(***************************************************************************)
(* The outline that diff prints, read back against the forest              *)
(***************************************************************************)
\* the position of the outline in the output
TreeStart == CHOOSE j \in DOMAIN out : out[j].k = "TreeHeader"

\* the lines of the outline
TreeLines == SubSeq(out, TreeStart + 1, Len(out))

RECURSIVE Outline(_, _, _)
\* the outline of a forest as the claim describes it, from the i-th node on:
\* each node with its prefix and connector, the children of a node under the
\* node's prefix extended by the continuation when the node is not the last
\* of its siblings and by the blank when it is
Outline(nodes, prefix, i) ==
    IF i > Len(nodes) THEN <<>>
    ELSE LET node == nodes[i]
             last == i = Len(nodes)
         IN  <<[prefix |-> prefix, connector |-> IF last THEN "+-- " ELSE "|-- "]>>
             \o Outline(node.Children, Append(prefix, IF last THEN "    " ELSE "|   "), 1)
             \o Outline(nodes, prefix, i + 1)

\* C16: the lines of the outline carry, node by node in pre-order, the
\* prefix and the connector that the claim describes: the last-sibling
\* connector exactly on the last of the siblings, and under a node its
\* prefix extended by the continuation or by the blank as the node is not or
\* is the last of its siblings.
C16_OutlinePrefixes ==
    (cmd = "diff" /\ Printed("TreeHeader")) =>
        LET expected == Outline(rootNodes, <<>>, 1)
        IN  /\ Len(TreeLines) = Len(expected)
            /\ \A j \in DOMAIN expected :
                  LET x == TreeLines[j].x
                  IN  /\ x[Len(x) - 1] = expected[j].connector
                      /\ SubSeq(x, 1, Len(x) - 2) = expected[j].prefix

(***************************************************************************)
(* The order of a bulk push                                                *)
(***************************************************************************)
IsPlanItem(e) == e.k = "PlanItem"

IsUpdate(c) == c.op = "update"

\* the file paths of the plan, in the order they were listed to the operator
PlanListed == [k \in DOMAIN SelectSeq(out, IsPlanItem) |-> SelectSeq(out, IsPlanItem)[k].x]

\* the identifiers updated, in the order of the calls
UpdatesIssued == [k \in DOMAIN SelectSeq(calls, IsUpdate) |-> SelectSeq(calls, IsUpdate)[k].id]

\* C17: in a bulk push the k-th update is the one of the file listed k-th in
\* the plan, and the order is fixed by the local snapshot and the remote
\* catalog: no other order of the plan can come out of the same input.
C17_UpdateOrderStable ==
    (cmd = "push" /\ Printed("Prompt")) =>
        /\ Len(UpdatesIssued) <= Len(PlanListed)
        /\ \A k \in DOMAIN UpdatesIssued :
              \E i \in DOMAIN files :
                  Carries(i, UpdatesIssued[k]) /\ files[i].path = PlanListed[k]
        /\ \A q \in PagesToPush(files, articles) :
              [k \in DOMAIN q |-> q[k].filePath] = PlanListed

(***************************************************************************)
(* The recursions over the parent references                               *)
(***************************************************************************)
\* the identifiers that the traversal of download visits, in order
TraversalIDs == [k \in DOMAIN Traversal |-> Traversal[k].article.ID]

\* a sequence of visits in which no article is visited twice and none lies
\* on a cycle of parent references: a recursion that makes one visit per call
\* makes at most as many calls as there are articles
VisitsBounded(ids) ==
    /\ Len(ids) <= Len(articles)
    /\ \A j, k \in DOMAIN ids : ids[j] = ids[k] => j = k
    /\ \A k \in DOMAIN ids :
          /\ OnRemote(ids[k])
          /\ ~OnCycle(articles[IndexOf(ids[k])])
          /\ FromRoot(articles[IndexOf(ids[k])])

\* C18: whatever the parent references of the listed articles, cycles
\* included, buildTreeNode and downloadArticleRecursive are called at most
\* once per article and never on an article that lies on a cycle, since
\* every article they visit is reached from a root; and diff and download go
\* on to their end, where they return.
C18_RecursionsTerminate ==
    /\ TreeBuilt => VisitsBounded(ForestIDs(rootNodes))
    /\ TraversalPlanned => VisitsBounded(TraversalIDs)
    /\ cmd \in {"diff", "download"} => (pc = "done" /\ ret # "running") \/ ENABLED Next

\* a download that ended well over a catalog with a cycle, having gone down
\* to a child
C18_Witness ==
    /\ cmd = "download" /\ Printed("Downloaded") /\ HasCycle
    /\ \E k \in DOMAIN writes : Len(writes[k].path) = 2

(***************************************************************************)
(* When a bulk push warns about pages deleted locally                      *)
(***************************************************************************)
\* some remote article has no decodable local file carrying its identifier
SomeDeletedLocally ==
    \E a \in DOMAIN articles :
        ~\E i \in DOMAIN files : files[i].st = "ok" /\ files[i].id = articles[a].ID

====
